---- MODULE Spec2Model ----
(***************************************************************************)
(* Model of backend/server.py: the FastAPI task-management API over two    *)
(* MongoDB collections (users, tasks).  Every handler is a coroutine; each *)
(* "await db...." is one atomic store operation and a point where other    *)
(* requests interleave.  A request occupies a slot of reqs; every action   *)
(* below is the code of a handler up to and including its next store       *)
(* operation.                                                              *)
(***************************************************************************)
EXTENDS Integers, FiniteSets, Sequences, TLC

\* ---------------------------------------------------------------- bounds
MaxUsers == 2
MaxTasks == 1
MaxTicks == 1
MaxTokens == 2

\* ------------------------------------------------------ program constants
ACCESS_TOKEN_EXPIRE_MINUTES == 30
DefaultExpireMinutes == 15
ToListCap == 1000

VARIABLES users, tasks, tokens, now, nextUserId, nextTaskId, reqs, resp

vars == <<users, tasks, tokens, now, nextUserId, nextTaskId, reqs, resp>>

\* Optional[T]: None is the empty tuple, a present value v is <<v>>.
None == <<>>
Some(v) == <<v>>

\* Requests that can be in flight at the same time.
Slots == {1, 2}

\* ------------------------------------------------------------- helpers
\* passlib bcrypt: the hash is not the password; verification is exact.
get_password_hash(password) == <<"bcrypt", password>>

verify_password(plain_password, hashed_password) ==
    hashed_password = <<"bcrypt", plain_password>>

\* A user that is in no collection: the "not found" result of find_one.
NoUser ==
    [id |-> 0, username |-> "", email |-> "", full_name |-> "", role |-> "",
     hashed_password |-> None, is_active |-> FALSE]

\* class User: id is a fresh uuid, is_active defaults to True.  created_at
\* is left out: no handler reads or writes it after the insert.
User(uid, username, email, full_name, role, hashed_password) ==
    [id |-> uid, username |-> username, email |-> email,
     full_name |-> full_name, role |-> role,
     hashed_password |-> hashed_password, is_active |-> TRUE]

\* class UserCreate applied to a request body: role defaults to "user".
UserCreate(body) ==
    [username |-> body.username, email |-> body.email,
     full_name |-> body.full_name, password |-> body.password,
     role |-> IF body.role = None THEN "user" ELSE body.role[1]]

\* class UserResponse: the public view, without hashed_password.
UserResponse(u) ==
    [id |-> u.id, username |-> u.username, email |-> u.email,
     full_name |-> u.full_name, role |-> u.role, is_active |-> u.is_active]

\* The token with an invalid signature or structure.
BadToken == [sub |-> None, exp |-> 0, valid |-> FALSE]

\* "if expires_delta:" is false for None and for a zero timedelta.
create_access_token(data, expires_delta) ==
    [sub |-> data.sub,
     exp |-> IF expires_delta # None /\ expires_delta[1] # 0
             THEN now + expires_delta[1]
             ELSE now + DefaultExpireMinutes,
     valid |-> TRUE]

\* {k: v for k, v in data.dict().items() if v is not None}, then $set.
Set(doc, update_data) ==
    [k \in DOMAIN doc |->
        IF k \in DOMAIN update_data /\ update_data[k] # None
        THEN update_data[k][1] ELSE doc[k]]

NonNone(data) == {k \in DOMAIN data : data[k] # None}

\* A request in flight: the coroutine's position and its local variables.
Req(op, pc, caller, data, local) ==
    [op |-> op, pc |-> pc, caller |-> caller, data |-> data, local |-> local]

Idle == Req("", "idle", NoUser, None, None)

\* A new request takes the first idle slot (slots are interchangeable).
Free(s) ==
    /\ reqs[s].pc = "idle"
    /\ \A s2 \in Slots : s2 < s => reqs[s2].pc # "idle"

\* What the step just taken sent to a client: nothing, or the response of
\* the handler that returned (or raised HTTPException) in that step.
Response(op, caller, data, local, code, body) ==
    [op |-> op, caller |-> caller, data |-> data, local |-> local,
     code |-> code, body |-> body]

NoResponse == Response("", NoUser, None, None, 0, None)

\* The handler of slot s returns (or raises HTTPException) with this code.
Done(s, op, caller, data, local, code, body) ==
    /\ reqs' = [reqs EXCEPT ![s] = Idle]
    /\ resp' = Response(op, caller, data, local, code, body)

\* The handler of slot s suspends at its next await.
Goto(s, op, pc, caller, data, local) ==
    /\ reqs' = [reqs EXCEPT ![s] = Req(op, pc, caller, data, local)]
    /\ resp' = NoResponse

\* get_current_user that also turns away users with is_active false.
get_current_user_active(token) ==
    IF ~token.valid \/ token.exp <= now \/ token.sub = None
    THEN [code |-> 401, user |-> NoUser]
    ELSE IF \E u \in users : u.id = token.sub[1] /\ u.is_active
         THEN [code |-> 200, user |-> CHOOSE u \in users : u.id = token.sub[1]]
         ELSE [code |-> 401, user |-> NoUser]

\* get_current_user whose find_one does not filter on the token's subject.
get_current_user_any(token) ==
    IF ~token.valid \/ token.exp <= now \/ token.sub = None
    THEN [code |-> 401, user |-> NoUser]
    ELSE IF users # {}
         THEN [code |-> 200, user |-> CHOOSE u \in users : TRUE]
         ELSE [code |-> 401, user |-> NoUser]

\* get_current_user: jwt.decode (signature, exp), then db.users.find_one.
get_current_user(token) ==
    IF ~token.valid \/ token.exp <= now \/ token.sub = None
    THEN [code |-> 401, user |-> NoUser]
    ELSE IF \E u \in users : u.id = token.sub[1]
         THEN [code |-> 200, user |-> CHOOSE u \in users : u.id = token.sub[1]]
         ELSE [code |-> 401, user |-> NoUser]

\* get_admin_user without the role check.
get_admin_user_any_role(token) == get_current_user(token)

\* get_admin_user: 403 unless the resolved user is an admin.
get_admin_user(token) ==
    LET r == get_current_user(token) IN
    IF r.code # 200 THEN r
    ELSE IF r.user.role # "admin" THEN [code |-> 403, user |-> r.user]
    ELSE r

\* class Token: the body of a successful login.  tokens holds the login
\* responses clients have received; a request presents the access_token of
\* one of them, or a token that does not verify.
Token(access_token, user) ==
    [access_token |-> access_token, token_type |-> "bearer",
     user |-> UserResponse(user)]

Credentials == {t.access_token : t \in tokens} \cup {BadToken}

Init ==
    /\ users = {}
    /\ tasks = {}
    /\ tokens = {}
    /\ now = 0
    /\ nextUserId = 1
    /\ nextTaskId = 1
    /\ reqs = [s \in Slots |-> Idle]
    /\ resp = NoResponse

\* ------------------------------------------------------------ startup
\* create_admin_user that inserts without looking for an admin first.
create_admin_user_find_unchecked(s) ==
    /\ Free(s)
    /\ Goto(s, "startup", "insert", NoUser, None, None)
    /\ UNCHANGED <<users, tasks, tokens, now, nextUserId, nextTaskId>>

\* create_admin_user, first await: find_one({"role": "admin"}).
create_admin_user_find(s) ==
    /\ Free(s)
    /\ IF \E u \in users : u.role = "admin"
       THEN Done(s, "startup", NoUser, None, None, 200, None)
       ELSE Goto(s, "startup", "insert", NoUser, None, None)
    /\ UNCHANGED <<users, tasks, tokens, now, nextUserId, nextTaskId>>

\* create_admin_user, second await: insert_one(admin_user).
create_admin_user_insert(s) ==
    /\ reqs[s].op = "startup" /\ reqs[s].pc = "insert"
    /\ nextUserId <= MaxUsers
    /\ users' = users \cup
         {User(nextUserId, "admin", "admin@taskmanager.com",
               "System Administrator", "admin", get_password_hash("admin123"))}
    /\ nextUserId' = nextUserId + 1
    /\ Done(s, "startup", NoUser, None, None, 200, None)
    /\ UNCHANGED <<tasks, tokens, now, nextTaskId>>

\* ------------------------------------------------------- auth endpoints
\* register, first await: find_one({"$or": [username, email]}).
register_find(s, body) ==
    /\ Free(s)
    /\ LET user_data == UserCreate(body) IN
         IF \E u \in users : u.username = user_data.username
                             \/ u.email = user_data.email
         THEN Done(s, "register", NoUser, user_data, None, 400, None)
         ELSE Goto(s, "register", "insert", NoUser, user_data, None)
    /\ UNCHANGED <<users, tasks, tokens, now, nextUserId, nextTaskId>>

\* register, second await: insert_one(user.dict()).
register_insert(s) ==
    /\ reqs[s].op = "register" /\ reqs[s].pc = "insert"
    /\ nextUserId <= MaxUsers
    /\ LET user_data == reqs[s].data
           user == User(nextUserId, user_data.username, user_data.email,
                        user_data.full_name, user_data.role,
                        get_password_hash(user_data.password)) IN
         /\ users' = users \cup {user}
         /\ Done(s, "register", NoUser, user_data, None, 200,
                 UserResponse(user))
    /\ nextUserId' = nextUserId + 1
    /\ UNCHANGED <<tasks, tokens, now, nextTaskId>>

\* login without the is_active check.
login_with_inactive(s, login_data, user) ==
    IF user = NoUser
       \/ ~verify_password(login_data.password, user.hashed_password)
    THEN /\ Done(s, "login", NoUser, login_data, user, 401, None)
         /\ UNCHANGED tokens
    ELSE LET access_token ==
                 create_access_token([sub |-> Some(user.id)],
                                     Some(ACCESS_TOKEN_EXPIRE_MINUTES)) IN
         /\ Token(access_token, user) \in tokens
            \/ Cardinality(tokens) < MaxTokens
         /\ tokens' = tokens \cup {Token(access_token, user)}
         /\ Done(s, "login", NoUser, login_data, user, 200,
                 Token(access_token, user))

\* What login does once find_one has returned user (NoUser: no match).
login_with(s, login_data, user) ==
    IF user = NoUser
       \/ ~verify_password(login_data.password, user.hashed_password)
    THEN /\ Done(s, "login", NoUser, login_data, user, 401, None)
         /\ UNCHANGED tokens
    ELSE IF ~user.is_active
    THEN /\ Done(s, "login", NoUser, login_data, user, 401, None)
         /\ UNCHANGED tokens
    ELSE LET access_token ==
                 create_access_token([sub |-> Some(user.id)],
                                     Some(ACCESS_TOKEN_EXPIRE_MINUTES)) IN
         /\ Token(access_token, user) \in tokens
            \/ Cardinality(tokens) < MaxTokens
         /\ tokens' = tokens \cup {Token(access_token, user)}
         /\ Done(s, "login", NoUser, login_data, user, 200,
                 Token(access_token, user))

\* login: its only await is find_one({"username": ...}); with several
\* matching documents the store returns any one of them.
login(s, login_data) ==
    /\ Free(s)
    /\ LET matches == {u \in users : u.username = login_data.username} IN
         IF matches = {}
         THEN login_with(s, login_data, NoUser)
         ELSE \E user \in matches : login_with(s, login_data, user)
    /\ UNCHANGED <<users, tasks, now, nextUserId, nextTaskId>>

\* get_me: only the dependency get_current_user awaits.
get_me(s, token) ==
    /\ Free(s)
    /\ LET r == get_current_user(token) IN
         Done(s, "get_me", r.user, token, None, r.code,
              IF r.code = 200 THEN UserResponse(r.user) ELSE None)
    /\ UNCHANGED <<users, tasks, tokens, now, nextUserId, nextTaskId>>

\* ------------------------------------------------- user management
\* Depends(get_admin_user) of an admin-only handler: 401, 403, or the
\* handler starts with current_user bound.
admin_only(s, token, op, first, data) ==
    LET r == get_admin_user(token) IN
    IF r.code = 401 THEN Done(s, op, r.user, None, None, r.code, None)
    ELSE IF r.code # 200 THEN Done(s, op, r.user, data, None, r.code, None)
    ELSE Goto(s, op, first, r.user, data, None)

\* Depends(get_current_user) of a handler open to every role.
authenticated(s, token, op, first, data) ==
    LET r == get_current_user(token) IN
    IF r.code # 200
    THEN Done(s, op, r.user, None, None, r.code, None)
    ELSE Goto(s, op, first, r.user, data, None)

At(s, op, pc) == reqs[s].op = op /\ reqs[s].pc = pc

\* Ids a client can name: those handed out so far, and 0 for an unknown id.
KnownUserIds == 0..(nextUserId - 1)

get_users_auth(s, token) ==
    /\ Free(s)
    /\ admin_only(s, token, "get_users", "find", None)
    /\ UNCHANGED <<users, tasks, tokens, now, nextUserId, nextTaskId>>

\* find().to_list(1000): at most ToListCap documents.
to_list(docs, length) ==
    IF Cardinality(docs) <= length THEN {docs}
    ELSE {d \in SUBSET docs : Cardinality(d) = length}

get_users_find(s) ==
    /\ At(s, "get_users", "find")
    /\ \E found \in to_list(users, ToListCap) :
         Done(s, "get_users", reqs[s].caller, None, None, 200,
              {UserResponse(u) : u \in found})
    /\ UNCHANGED <<users, tasks, tokens, now, nextUserId, nextTaskId>>

create_user_auth(s, token, body) ==
    /\ Free(s)
    /\ admin_only(s, token, "create_user", "find", UserCreate(body))
    /\ UNCHANGED <<users, tasks, tokens, now, nextUserId, nextTaskId>>

create_user_find(s) ==
    /\ At(s, "create_user", "find")
    /\ LET user_data == reqs[s].data IN
         IF \E u \in users : u.username = user_data.username
                             \/ u.email = user_data.email
         THEN Done(s, "create_user", reqs[s].caller, user_data, None, 400, None)
         ELSE Goto(s, "create_user", "insert", reqs[s].caller, user_data, None)
    /\ UNCHANGED <<users, tasks, tokens, now, nextUserId, nextTaskId>>

create_user_insert(s) ==
    /\ At(s, "create_user", "insert")
    /\ nextUserId <= MaxUsers
    /\ LET user_data == reqs[s].data
           user == User(nextUserId, user_data.username, user_data.email,
                        user_data.full_name, user_data.role,
                        get_password_hash(user_data.password)) IN
         /\ users' = users \cup {user}
         /\ Done(s, "create_user", reqs[s].caller, user_data, None, 200,
                 UserResponse(user))
    /\ nextUserId' = nextUserId + 1
    /\ UNCHANGED <<tasks, tokens, now, nextTaskId>>

NoUserUpdate ==
    [username |-> None, email |-> None, full_name |-> None, role |-> None,
     is_active |-> None]

\* class UserUpdate applied to a request body: the five optional fields.
UserUpdate(body) ==
    [k \in DOMAIN NoUserUpdate |-> IF k \in DOMAIN body THEN body[k] ELSE None]

update_user_auth(s, token, user_id, body) ==
    /\ Free(s)
    /\ admin_only(s, token, "update_user", "find",
                  [user_id |-> user_id, user_data |-> UserUpdate(body)])
    /\ UNCHANGED <<users, tasks, tokens, now, nextUserId, nextTaskId>>

update_user_find(s) ==
    /\ At(s, "update_user", "find")
    /\ LET d == reqs[s].data IN
         IF ~ \E u \in users : u.id = d.user_id
         THEN Done(s, "update_user", reqs[s].caller, d, None, 404, None)
         ELSE LET user == CHOOSE u \in users : u.id = d.user_id IN
              IF NonNone(d.user_data) # {}
              THEN Goto(s, "update_user", "update", reqs[s].caller, d, user)
              ELSE Done(s, "update_user", reqs[s].caller, d, None, 200,
                        UserResponse(user))
    /\ UNCHANGED <<users, tasks, tokens, now, nextUserId, nextTaskId>>

\* update_one({"id": user_id}, {"$set": update_data}); the response is
\* built from the document read before.
update_user_update(s) ==
    /\ At(s, "update_user", "update")
    /\ LET d == reqs[s].data IN
         /\ users' = {IF u.id = d.user_id THEN Set(u, d.user_data) ELSE u :
                       u \in users}
         /\ Done(s, "update_user", reqs[s].caller, d, None, 200,
                 UserResponse(Set(reqs[s].local, d.user_data)))
    /\ UNCHANGED <<tasks, tokens, now, nextUserId, nextTaskId>>

delete_user_auth(s, token, user_id) ==
    /\ Free(s)
    /\ admin_only(s, token, "delete_user", "delete", user_id)
    /\ UNCHANGED <<users, tasks, tokens, now, nextUserId, nextTaskId>>

\* delete_user that also deletes the tasks assigned to the user.
delete_user_delete_cascade(s) ==
    /\ At(s, "delete_user", "delete")
    /\ LET user_id == reqs[s].data IN
         /\ users' = {u \in users : u.id # user_id}
         /\ tasks' = {t \in tasks : t.assigned_to # user_id}
         /\ Done(s, "delete_user", reqs[s].caller, user_id, None,
                 IF \E u \in users : u.id = user_id THEN 200 ELSE 404, None)
    /\ UNCHANGED <<tokens, now, nextUserId, nextTaskId>>

\* delete_one({"id": user_id}); deleted_count == 0 gives 404.
delete_user_delete(s) ==
    /\ At(s, "delete_user", "delete")
    /\ LET user_id == reqs[s].data IN
         /\ users' = {u \in users : u.id # user_id}
         /\ Done(s, "delete_user", reqs[s].caller, user_id, None,
                 IF \E u \in users : u.id = user_id THEN 200 ELSE 404, None)
    /\ UNCHANGED <<tasks, tokens, now, nextUserId, nextTaskId>>

\* ------------------------------------------------- task management
\* No task: the "not found" result of db.tasks.find_one.
NoTask ==
    [id |-> 0, title |-> "", description |-> "", assigned_to |-> 0,
     assigned_by |-> 0, status |-> "", deadline |-> 0, created_at |-> 0,
     updated_at |-> 0]

\* class TaskCreate applied to a request body: the four declared fields;
\* anything else in the body is dropped.
TaskCreate(body) ==
    [title |-> body.title, description |-> body.description,
     assigned_to |-> body.assigned_to, deadline |-> body.deadline]

NoTaskUpdate ==
    [title |-> None, description |-> None, assigned_to |-> None,
     status |-> None, deadline |-> None]

\* class TaskUpdate applied to a request body: the five optional fields.
TaskUpdate(body) ==
    [k \in DOMAIN NoTaskUpdate |-> IF k \in DOMAIN body THEN body[k] ELSE None]

\* task_dict that takes assigned_by from the request instead of the caller.
task_dict_from_request(task_data, current_user) ==
    [title |-> task_data.title, description |-> task_data.description,
     assigned_to |-> task_data.assigned_to, deadline |-> task_data.deadline,
     assigned_by |-> task_data.assigned_to]

\* task_dict = task_data.dict(); task_dict["assigned_by"] = current_user.id
task_dict(task_data, current_user) ==
    [title |-> task_data.title, description |-> task_data.description,
     assigned_to |-> task_data.assigned_to, deadline |-> task_data.deadline,
     assigned_by |-> current_user.id]

\* class Task: fresh id, status "pending", both timestamps the current time.
Task(tid, d) ==
    [id |-> tid, title |-> d.title, description |-> d.description,
     assigned_to |-> d.assigned_to, assigned_by |-> d.assigned_by,
     status |-> "pending", deadline |-> d.deadline, created_at |-> now,
     updated_at |-> now]

\* db.users.find_one({"id": user_id}) for the response: the public view of
\* the user, or None when there is no such user.
user_view(user_id) ==
    IF \E u \in users : u.id = user_id
    THEN Some(UserResponse(CHOOSE u \in users : u.id = user_id))
    ELSE None

\* class TaskResponse: the task and the two resolved users.
TaskResponse(task, assigned_to_user, assigned_by_user) ==
    [task |-> task, assigned_to_user |-> assigned_to_user,
     assigned_by_user |-> assigned_by_user]

KnownTaskIds == 0..(nextTaskId - 1)

get_tasks_auth(s, token) ==
    /\ Free(s)
    /\ authenticated(s, token, "get_tasks", "find", None)
    /\ UNCHANGED <<users, tasks, tokens, now, nextUserId, nextTaskId>>

\* The query of get_tasks without the assigned_to filter.
tasks_query_unfiltered(current_user) == tasks

\* The query of get_tasks: every task for an admin, else the caller's own.
tasks_query(current_user) ==
    IF current_user.role = "admin" THEN tasks
    ELSE {t \in tasks : t.assigned_to = current_user.id}

get_tasks_find(s) ==
    /\ At(s, "get_tasks", "find")
    /\ \E found \in to_list(tasks_query(reqs[s].caller), ToListCap) :
         Goto(s, "get_tasks", "populate", reqs[s].caller, None, found)
    /\ UNCHANGED <<users, tasks, tokens, now, nextUserId, nextTaskId>>

\* The loop that resolves assigned_to and assigned_by of every task found
\* (its find_one calls are taken together).
get_tasks_populate(s) ==
    /\ At(s, "get_tasks", "populate")
    /\ Done(s, "get_tasks", reqs[s].caller, None, reqs[s].local, 200,
            {TaskResponse(t, user_view(t.assigned_to), user_view(t.assigned_by)) :
                t \in reqs[s].local})
    /\ UNCHANGED <<users, tasks, tokens, now, nextUserId, nextTaskId>>

create_task_auth(s, token, body) ==
    /\ Free(s)
    /\ admin_only(s, token, "create_task", "find", TaskCreate(body))
    /\ UNCHANGED <<users, tasks, tokens, now, nextUserId, nextTaskId>>

\* find_one({"id": task_data.assigned_to}): 404 when there is no such user.
create_task_find(s) ==
    /\ At(s, "create_task", "find")
    /\ LET task_data == reqs[s].data IN
         IF ~ \E u \in users : u.id = task_data.assigned_to
         THEN Done(s, "create_task", reqs[s].caller, task_data, None, 404, None)
         ELSE Goto(s, "create_task", "insert", reqs[s].caller, task_data,
                   CHOOSE u \in users : u.id = task_data.assigned_to)
    /\ UNCHANGED <<users, tasks, tokens, now, nextUserId, nextTaskId>>

create_task_insert(s) ==
    /\ At(s, "create_task", "insert")
    /\ nextTaskId <= MaxTasks
    /\ LET current_user == reqs[s].caller
           task == Task(nextTaskId, task_dict(reqs[s].data, current_user)) IN
         /\ tasks' = tasks \cup {task}
         /\ Done(s, "create_task", current_user, reqs[s].data, task, 200,
                 TaskResponse(task, Some(UserResponse(reqs[s].local)),
                              Some(UserResponse(current_user))))
    /\ nextTaskId' = nextTaskId + 1
    /\ UNCHANGED <<users, tokens, now, nextUserId>>

update_task_auth(s, token, task_id, body) ==
    /\ Free(s)
    /\ authenticated(s, token, "update_task", "find",
                     [task_id |-> task_id, task_data |-> TaskUpdate(body)])
    /\ UNCHANGED <<users, tasks, tokens, now, nextUserId, nextTaskId>>

\* The permission check of update_task left out.
permission_denied_never(current_user, task) == FALSE

\* The permission check of update_task: neither an admin nor the assignee.
permission_denied(current_user, task) ==
    current_user.role # "admin" /\ task.assigned_to # current_user.id

\* task_update_data without the allowed_fields filter.
task_update_data_unfiltered(task_data, current_user) == task_data

\* The fields of the payload that update_task writes for this caller.
task_update_data(task_data, current_user) ==
    IF current_user.role # "admin"
    THEN [k \in DOMAIN task_data |->
             IF k \in {"status"} THEN task_data[k] ELSE None]
    ELSE task_data

\* find_one({"id": task_id}), the permission check and the field filter.
update_task_find(s) ==
    /\ At(s, "update_task", "find")
    /\ LET d == reqs[s].data
           current_user == reqs[s].caller IN
         IF ~ \E t \in tasks : t.id = d.task_id
         THEN Done(s, "update_task", current_user, d.task_id, NoTask, 404,
                   None)
         ELSE LET task == CHOOSE t \in tasks : t.id = d.task_id
                  update_data == task_update_data(d.task_data, current_user)
                  local == [task |-> task, update_data |-> update_data] IN
              IF permission_denied(current_user, task)
              THEN Done(s, "update_task", current_user, d.task_id, task, 403,
                        None)
              ELSE IF current_user.role = "admin"
                      /\ update_data.assigned_to # None
              THEN Goto(s, "update_task", "check", current_user, d, local)
              ELSE IF NonNone(update_data) # {}
              THEN Goto(s, "update_task", "update", current_user, d, local)
              ELSE Goto(s, "update_task", "respond", current_user, d, local)
    /\ UNCHANGED <<users, tasks, tokens, now, nextUserId, nextTaskId>>

\* update_task that does not look up the new assignee.
update_task_check_unverified(s) ==
    /\ At(s, "update_task", "check")
    /\ Goto(s, "update_task", "update", reqs[s].caller, reqs[s].data,
            reqs[s].local)
    /\ UNCHANGED <<users, tasks, tokens, now, nextUserId, nextTaskId>>

\* find_one({"id": update_data["assigned_to"]}): 404 when there is none.
update_task_check(s) ==
    /\ At(s, "update_task", "check")
    /\ LET r == reqs[s] IN
         IF ~ \E u \in users : u.id = r.local.update_data.assigned_to[1]
         THEN Done(s, "update_task", r.caller, r.data.task_id,
                   r.local.task, 404, None)
         ELSE Goto(s, "update_task", "update", r.caller, r.data, r.local)
    /\ UNCHANGED <<users, tasks, tokens, now, nextUserId, nextTaskId>>

\* update_data["updated_at"] = utcnow(); update_one({"id": task_id}, $set);
\* task.update(update_data).
update_task_update(s) ==
    /\ At(s, "update_task", "update")
    /\ LET r == reqs[s]
           update_data == r.local.update_data @@ [updated_at |-> Some(now)] IN
         /\ tasks' = {IF t.id = r.data.task_id THEN Set(t, update_data) ELSE t :
                       t \in tasks}
         /\ Goto(s, "update_task", "respond", r.caller, r.data,
                 [task |-> Set(r.local.task, update_data),
                  update_data |-> update_data])
    /\ UNCHANGED <<users, tokens, now, nextUserId, nextTaskId>>

\* The two find_one calls that resolve the users of the response.
update_task_respond(s) ==
    /\ At(s, "update_task", "respond")
    /\ LET task == reqs[s].local.task IN
         Done(s, "update_task", reqs[s].caller, reqs[s].data.task_id,
              task, 200,
              TaskResponse(task, user_view(task.assigned_to),
                           user_view(task.assigned_by)))
    /\ UNCHANGED <<users, tasks, tokens, now, nextUserId, nextTaskId>>

delete_task_auth(s, token, task_id) ==
    /\ Free(s)
    /\ admin_only(s, token, "delete_task", "delete", task_id)
    /\ UNCHANGED <<users, tasks, tokens, now, nextUserId, nextTaskId>>

\* delete_one({"id": task_id}); deleted_count == 0 gives 404.
delete_task_delete(s) ==
    /\ At(s, "delete_task", "delete")
    /\ LET task_id == reqs[s].data IN
         /\ tasks' = {t \in tasks : t.id # task_id}
         /\ Done(s, "delete_task", reqs[s].caller, task_id, None,
                 IF \E t \in tasks : t.id = task_id THEN 200 ELSE 404, None)
    /\ UNCHANGED <<users, tokens, now, nextUserId, nextTaskId>>

\* ------------------------------------------------------- dashboard
\* The counts of get_dashboard_stats in the order they are awaited; the
\* total of the task counts is total_tasks for an admin, my_tasks otherwise.
stats_queries(current_user) ==
    IF current_user.role = "admin"
    THEN <<"total_users", "total_tasks", "pending_tasks",
           "in_progress_tasks", "completed_tasks">>
    ELSE <<"my_tasks", "pending_tasks", "in_progress_tasks",
           "completed_tasks">>

\* One count_documents call of get_dashboard_stats, on the store as it is
\* when the call runs.
count_documents(current_user, query) ==
    LET scope == IF current_user.role = "admin" THEN tasks
                 ELSE {t \in tasks : t.assigned_to = current_user.id}
        status == [pending_tasks |-> "pending",
                   in_progress_tasks |-> "in_progress",
                   completed_tasks |-> "completed"] IN
    IF query = "total_users" THEN Cardinality(users)
    ELSE IF query \in {"total_tasks", "my_tasks"} THEN Cardinality(scope)
    ELSE Cardinality({t \in scope : t.status = status[query]})

get_dashboard_stats_auth(s, token) ==
    /\ Free(s)
    /\ authenticated(s, token, "get_dashboard_stats", "count", None)
    /\ UNCHANGED <<users, tasks, tokens, now, nextUserId, nextTaskId>>

\* The next await of get_dashboard_stats: one count; after the last one the
\* handler returns the counts under their names.
get_dashboard_stats_count(s) ==
    /\ At(s, "get_dashboard_stats", "count")
    /\ LET current_user == reqs[s].caller
           queries == stats_queries(current_user)
           counted == Append(reqs[s].local,
                             count_documents(current_user,
                                             queries[Len(reqs[s].local) + 1]))
       IN  IF Len(counted) < Len(queries)
           THEN Goto(s, "get_dashboard_stats", "count", current_user, None,
                     counted)
           ELSE Done(s, "get_dashboard_stats", current_user, None, None, 200,
                     [q \in {queries[i] : i \in 1..Len(queries)} |->
                         counted[CHOOSE i \in 1..Len(queries) :
                                    queries[i] = q]])
    /\ UNCHANGED <<users, tasks, tokens, now, nextUserId, nextTaskId>>

\* Time passes: the clock advances by the given minutes, MaxTicks times at
\* most.
Tick(minutes) ==
    /\ now + minutes <= MaxTicks * minutes
    /\ now' = now + minutes
    /\ resp' = NoResponse
    /\ UNCHANGED <<users, tasks, tokens, nextUserId, nextTaskId, reqs>>

\* ------------------------------------------------------------ inputs
\* Request bodies as clients send them.
RegisterBodies ==
    [username : {"bob"}, email : {"bob@example.com"}, full_name : {"Bob"},
     password : {"pw"}, role : {None, Some("admin")}]

LoginRequests == [username : {"admin", "bob"}, password : {"admin123", "pw"}]

\* The account changes of this specification: deactivation and reactivation.
AuthUserUpdates ==
    {[is_active |-> Some(FALSE)], [is_active |-> Some(TRUE)]}

\* Registration, login, /auth/me and the account changes an admin makes.
NextAuth ==
    \/ \E s \in {1} : create_admin_user_find(s)
    \/ \E s \in {1} : create_admin_user_insert(s)
    \/ \E s \in {1}, body \in {b \in RegisterBodies : b.role = None} :
          register_find(s, body)
    \/ \E s \in {1} : register_insert(s)
    \/ \E s \in {1}, login_data \in LoginRequests : login(s, login_data)
    \/ \E s \in {1}, token \in Credentials : get_me(s, token)
    \/ \E s \in {1}, token \in Credentials, user_id \in KnownUserIds,
          body \in AuthUserUpdates : update_user_auth(s, token, user_id, body)
    \/ \E s \in {1} : update_user_find(s)
    \/ \E s \in {1} : update_user_update(s)
    \/ \E s \in {1}, token \in Credentials, user_id \in KnownUserIds :
          delete_user_auth(s, token, user_id)
    \/ \E s \in {1} : delete_user_delete(s)
    \/ Tick(ACCESS_TOKEN_EXPIRE_MINUTES)

SpecAuth == Init /\ [][NextAuth]_vars

\* ------------------------------------------------------ task requests
\* The store once the seeded admin and two registered users have logged in.
Admin ==
    User(1, "admin", "admin@taskmanager.com", "System Administrator", "admin",
         get_password_hash("admin123"))

Bob == User(2, "bob", "bob@example.com", "Bob", "user", get_password_hash("pw"))

LoggedIn(user) ==
    Token([sub |-> Some(user.id), exp |-> ACCESS_TOKEN_EXPIRE_MINUTES,
           valid |-> TRUE], user)

InitTasks ==
    /\ now = 0
    /\ users = {Admin, Bob}
    /\ tasks = {}
    /\ tokens = {LoggedIn(Admin), LoggedIn(Bob)}
    /\ nextUserId = 3
    /\ nextTaskId = 1
    /\ reqs = [s \in Slots |-> Idle]
    /\ resp = NoResponse

TaskCreateBodies ==
    [title : {"t1"}, description : {"d1"}, assigned_to : {0, 1, 2},
     deadline : {60}, assigned_by : {Some(0)}]

TaskUpdateBodies ==
    {[status |-> Some("completed"), title |-> Some("x"),
      assigned_by |-> Some(0)],
     [title |-> Some("x")],
     [status |-> None]}
    \cup {[assigned_to |-> Some(u)] : u \in {0, 1, 2}}

NextTasks ==
    \/ \E s \in {1}, token \in Credentials : get_tasks_auth(s, token)
    \/ \E s \in {1} : get_tasks_find(s)
    \/ \E s \in {1} : get_tasks_populate(s)
    \/ \E s \in {1}, token \in Credentials, body \in TaskCreateBodies :
          create_task_auth(s, token, body)
    \/ \E s \in {1} : create_task_find(s)
    \/ \E s \in {1} : create_task_insert(s)
    \/ \E s \in {1}, token \in Credentials, task_id \in KnownTaskIds,
          body \in TaskUpdateBodies : update_task_auth(s, token, task_id, body)
    \/ \E s \in {1} : update_task_find(s)
    \/ \E s \in {1} : update_task_check(s)
    \/ \E s \in {1} : update_task_update(s)
    \/ \E s \in {1} : update_task_respond(s)
    \/ \E s \in {1}, token \in Credentials, task_id \in KnownTaskIds :
          delete_task_auth(s, token, task_id)
    \/ \E s \in {1} : delete_task_delete(s)
    \/ \E s \in {1}, token \in Credentials, user_id \in {2} :
          delete_user_auth(s, token, user_id)
    \/ \E s \in {1} : delete_user_delete(s)
    \/ Tick(ACCESS_TOKEN_EXPIRE_MINUTES \div 2)

SpecTasks == InitTasks /\ [][NextTasks]_vars

\* ------------------------------------------------ admin-only requests
\* The store after the first startup, with the seeded admin logged in.
InitAdmin ==
    /\ now = 0
    /\ users = {Admin}
    /\ tasks = {}
    /\ tokens = {LoggedIn(Admin)}
    /\ nextUserId = 2
    /\ nextTaskId = 1
    /\ reqs = [s \in Slots |-> Idle]
    /\ resp = NoResponse

AdminUserBodies ==
    [username : {"bob"}, email : {"bob@example.com"}, full_name : {"Bob"},
     password : {"pw"}, role : {None}]

AdminUserUpdates == {[username |-> Some("admin")], [role |-> Some("user")]}

AdminTaskBodies ==
    [title : {"t1"}, description : {"d1"}, assigned_to : {0, 2},
     deadline : {60}]

\* The six admin-only handlers, and login for the users they create.
NextAdmin ==
    \/ \E s \in {1}, login_data \in {[username |-> "bob", password |-> "pw"]} :
          login(s, login_data)
    \/ \E s \in {1}, token \in Credentials : get_users_auth(s, token)
    \/ \E s \in {1} : get_users_find(s)
    \/ \E s \in {1}, token \in Credentials, body \in AdminUserBodies :
          create_user_auth(s, token, body)
    \/ \E s \in {1} : create_user_find(s)
    \/ \E s \in {1} : create_user_insert(s)
    \/ \E s \in {1}, token \in Credentials, user_id \in KnownUserIds,
          body \in AdminUserUpdates : update_user_auth(s, token, user_id, body)
    \/ \E s \in {1} : update_user_find(s)
    \/ \E s \in {1} : update_user_update(s)
    \/ \E s \in {1}, token \in Credentials, user_id \in KnownUserIds :
          delete_user_auth(s, token, user_id)
    \/ \E s \in {1} : delete_user_delete(s)
    \/ \E s \in {1}, token \in Credentials, body \in AdminTaskBodies :
          create_task_auth(s, token, body)
    \/ \E s \in {1} : create_task_find(s)
    \/ \E s \in {1} : create_task_insert(s)
    \/ \E s \in {1}, token \in Credentials, task_id \in KnownTaskIds :
          delete_task_auth(s, token, task_id)
    \/ \E s \in {1} : delete_task_delete(s)

SpecAdmin == InitAdmin /\ [][NextAdmin]_vars

\* ------------------------------------------------------ role changes
\* The account changes of this specification: promotion and demotion.
RoleUpdates == {[role |-> Some("admin")], [role |-> Some("user")]}

\* Login and /auth/me while an admin changes roles and deletes accounts.
NextRoles ==
    \/ \E s \in {1}, body \in RegisterBodies : register_find(s, body)
    \/ \E s \in {1} : register_insert(s)
    \/ \E s \in {1}, login_data \in LoginRequests : login(s, login_data)
    \/ \E s \in {1}, token \in Credentials : get_me(s, token)
    \/ \E s \in {1}, token \in Credentials, user_id \in KnownUserIds,
          body \in RoleUpdates : update_user_auth(s, token, user_id, body)
    \/ \E s \in {1} : update_user_find(s)
    \/ \E s \in {1} : update_user_update(s)
    \/ \E s \in {1}, token \in Credentials, user_id \in KnownUserIds :
          delete_user_auth(s, token, user_id)
    \/ \E s \in {1} : delete_user_delete(s)
    \/ Tick(ACCESS_TOKEN_EXPIRE_MINUTES)

SpecRoles == InitAdmin /\ [][NextRoles]_vars

\* ------------------------------------------------ concurrent requests
RaceTaskBodies ==
    [title : {"t1"}, description : {"d1"}, assigned_to : {2}, deadline : {60}]

RaceTaskUpdates == {[assigned_to |-> Some(2)], [status |-> Some("completed")]}

\* Two requests in flight at once: task writes against delete_user.
NextRace ==
    \/ \E s \in Slots, token \in Credentials, body \in RaceTaskBodies :
          create_task_auth(s, token, body)
    \/ \E s \in Slots : create_task_find(s)
    \/ \E s \in Slots : create_task_insert(s)
    \/ \E s \in Slots, token \in Credentials, task_id \in KnownTaskIds,
          body \in RaceTaskUpdates : update_task_auth(s, token, task_id, body)
    \/ \E s \in Slots : update_task_find(s)
    \/ \E s \in Slots : update_task_check(s)
    \/ \E s \in Slots : update_task_update(s)
    \/ \E s \in Slots : update_task_respond(s)
    \/ \E s \in Slots, token \in Credentials, user_id \in {2} :
          delete_user_auth(s, token, user_id)
    \/ \E s \in Slots : delete_user_delete(s)

SpecRace == InitTasks /\ [][NextRace]_vars

\* ================================================================ claims
\* ---------------------------------------- dashboard against task writes
StatsTaskBodies ==
    [title : {"t1"}, description : {"d1"}, assigned_to : {2}, deadline : {60}]

StatsTaskUpdates == {[status |-> Some("completed")], [assigned_to |-> Some(1)]}

\* A stats call in flight while another request writes tasks.
NextStats ==
    \/ \E s \in Slots, token \in Credentials : get_dashboard_stats_auth(s, token)
    \/ \E s \in Slots : get_dashboard_stats_count(s)
    \/ \E s \in Slots, token \in Credentials, body \in StatsTaskBodies :
          create_task_auth(s, token, body)
    \/ \E s \in Slots : create_task_find(s)
    \/ \E s \in Slots : create_task_insert(s)
    \/ \E s \in Slots, token \in Credentials, task_id \in KnownTaskIds,
          body \in StatsTaskUpdates : update_task_auth(s, token, task_id, body)
    \/ \E s \in Slots : update_task_find(s)
    \/ \E s \in Slots : update_task_check(s)
    \/ \E s \in Slots : update_task_update(s)
    \/ \E s \in Slots : update_task_respond(s)
    \/ \E s \in Slots, token \in Credentials, task_id \in KnownTaskIds :
          delete_task_auth(s, token, task_id)
    \/ \E s \in Slots : delete_task_delete(s)

SpecStats == InitTasks /\ [][NextStats]_vars

\* ------------------------------------------------------ token issue
\* A call of create_access_token at the current time; its result is what
\* the step hands back.
create_access_token_call(data, expires_delta) ==
    /\ resp' = Response("create_access_token", NoUser,
                        [data |-> data, expires_delta |-> expires_delta],
                        None, 200, create_access_token(data, expires_delta))
    /\ UNCHANGED <<users, tasks, tokens, now, nextUserId, nextTaskId, reqs>>

\* timedelta arguments in minutes; None is the argument left out.
ExpiresDeltas ==
    {None, Some(0), Some(DefaultExpireMinutes),
     Some(ACCESS_TOKEN_EXPIRE_MINUTES), Some(2 * ACCESS_TOKEN_EXPIRE_MINUTES)}

\* Tokens issued by login and by direct calls of create_access_token.
NextIssue ==
    \/ \E s \in {1}, body \in RegisterBodies : register_find(s, body)
    \/ \E s \in {1} : register_insert(s)
    \/ \E s \in {1}, login_data \in LoginRequests : login(s, login_data)
    \/ \E s \in {1}, token \in Credentials : get_me(s, token)
    \/ \E user_id \in KnownUserIds \ {0}, expires_delta \in ExpiresDeltas :
          create_access_token_call([sub |-> Some(user_id)], expires_delta)
    \/ Tick(DefaultExpireMinutes)

SpecIssue == InitAdmin /\ [][NextIssue]_vars

\* ------------------------------------------- tasks of deleted users
DeleteTaskBodies ==
    [title : {"t1"}, description : {"d1"}, assigned_to : {1, 2},
     deadline : {60}]

\* Users are promoted and deleted while tasks are created and listed.
NextDelete ==
    \/ \E s \in {1}, token \in Credentials, body \in DeleteTaskBodies :
          create_task_auth(s, token, body)
    \/ \E s \in {1} : create_task_find(s)
    \/ \E s \in {1} : create_task_insert(s)
    \/ \E s \in {1}, token \in Credentials : get_tasks_auth(s, token)
    \/ \E s \in {1} : get_tasks_find(s)
    \/ \E s \in {1} : get_tasks_populate(s)
    \/ \E s \in {1}, token \in Credentials, user_id \in {2},
          body \in {[role |-> Some("admin")]} :
          update_user_auth(s, token, user_id, body)
    \/ \E s \in {1} : update_user_find(s)
    \/ \E s \in {1} : update_user_update(s)
    \/ \E s \in {1}, token \in Credentials, user_id \in {1, 2} :
          delete_user_auth(s, token, user_id)
    \/ \E s \in {1} : delete_user_delete(s)

SpecDelete == InitTasks /\ [][NextDelete]_vars

\* ------------------------------------------------ task update payloads
UpdateCreateBodies ==
    [title : {"t1"}, description : {"d1"}, assigned_to : {0, 2},
     deadline : {60}]

\* Payloads of PUT /tasks/{id}: a status outside the three named ones, a
\* status change, a title equal to the stored one, and a new assignee that
\* does not exist sent together with other fields.
UpdateTaskBodies ==
    {[status |-> Some("archived")],
     [status |-> Some("completed")],
     [title |-> Some("t1")],
     [assigned_to |-> Some(0), title |-> Some("x"),
      status |-> Some("completed")]}

\* Task creation and task updates, one request at a time.
NextUpdates ==
    \/ \E s \in {1}, token \in Credentials, body \in UpdateCreateBodies :
          create_task_auth(s, token, body)
    \/ \E s \in {1} : create_task_find(s)
    \/ \E s \in {1} : create_task_insert(s)
    \/ \E s \in {1}, token \in Credentials, task_id \in KnownTaskIds,
          body \in UpdateTaskBodies : update_task_auth(s, token, task_id, body)
    \/ \E s \in {1} : update_task_find(s)
    \/ \E s \in {1} : update_task_check(s)
    \/ \E s \in {1} : update_task_update(s)
    \/ \E s \in {1} : update_task_respond(s)
    \/ Tick(ACCESS_TOKEN_EXPIRE_MINUTES \div 2)

SpecUpdates == InitTasks /\ [][NextUpdates]_vars

\* ---------------------------------------------------------------- claims
AdminOnlyOps ==
    {"get_users", "create_user", "update_user", "delete_user", "create_task",
     "delete_task"}

\* The response r went to an authenticated caller who is not an admin.
NonAdminCaller(r) == r.caller # NoUser /\ r.caller.role # "admin"

\* Slot s took the step.
Stepped(s) == reqs'[s] # reqs[s]

\* C1: an admin-only operation called by a caller whose resolved role is not
\* "admin" ends with 403 (not 404, not success), whether or not the target
\* exists, and changes neither users nor tasks; no such request gets past
\* the dependency.
C1_NonAdminForbidden ==
    [][/\ (resp'.op \in AdminOnlyOps /\ NonAdminCaller(resp'))
            => (resp'.code = 403 /\ users' = users /\ tasks' = tasks)
       /\ \A s \in Slots :
            reqs'[s].op \in AdminOnlyOps => reqs'[s].caller.role = "admin"]_vars

\* A non-admin was refused the deletion of a user id that does not exist.
C1_Witness ==
    /\ resp.op = "delete_user"
    /\ resp.code = 403
    /\ NonAdminCaller(resp)
    /\ ~ \E u \in users : u.id = resp.data

\* Task t2 is task t with at most status and updated_at changed.
OnlyStatusChanged(t, t2) ==
    /\ t2.id = t.id
    /\ t2.title = t.title
    /\ t2.description = t.description
    /\ t2.assigned_to = t.assigned_to
    /\ t2.assigned_by = t.assigned_by
    /\ t2.deadline = t.deadline
    /\ t2.created_at = t.created_at

\* C2: every step of an update_task request of a non-admin caller (who got
\* past the permission check because the task is assigned to them) keeps the
\* set of tasks, changes no task but the target, and changes of the target at
\* most status and updated_at; the request ends with 200 for every payload.
C2_OwnerUpdatesOnlyStatus ==
    [][/\ \A s \in Slots :
            (/\ reqs[s].op = "update_task"
             /\ reqs[s].caller.role # "admin"
             /\ Stepped(s))
            => /\ {t.id : t \in tasks'} = {t.id : t \in tasks}
               /\ \A t \in tasks, t2 \in tasks' :
                    t2.id = t.id =>
                        /\ OnlyStatusChanged(t, t2)
                        /\ t.id # reqs[s].data.task_id => t2 = t
       /\ (/\ resp'.op = "update_task"
           /\ NonAdminCaller(resp')
           /\ resp'.local # NoTask
           /\ resp'.local.assigned_to = resp'.caller.id)
            => resp'.code = 200]_vars

\* The owner sent {status: "completed", title: "x"}: the stored task is
\* completed and still has its title.
C2_Witness ==
    /\ resp.op = "update_task"
    /\ resp.code = 200
    /\ NonAdminCaller(resp)
    /\ \E t \in tasks :
         /\ t.id = resp.data
         /\ t.assigned_to = resp.caller.id
         /\ t.status = "completed"
         /\ t.title = "t1"
         /\ t.updated_at > t.created_at

\* C3: update_task by a non-admin caller on an existing task assigned to
\* someone else ends with 403 and changes no task, for every payload; such a
\* request never gets past the permission check.
C3_NonOwnerForbidden ==
    [][/\ (/\ resp'.op = "update_task"
           /\ NonAdminCaller(resp')
           /\ resp'.local # NoTask
           /\ resp'.local.assigned_to # resp'.caller.id)
            => (resp'.code = 403 /\ tasks' = tasks)
       /\ \A s \in Slots :
            (/\ reqs'[s].op = "update_task"
             /\ reqs'[s].pc \in {"check", "update", "respond"}
             /\ reqs'[s].caller.role # "admin")
            => reqs'[s].local.task.assigned_to = reqs'[s].caller.id]_vars

\* A non-admin was refused the update of a stored task that is not theirs.
C3_Witness ==
    /\ resp.op = "update_task"
    /\ resp.code = 403
    /\ NonAdminCaller(resp)
    /\ resp.local \in tasks
    /\ resp.local.assigned_to # resp.caller.id

C5_UniqueUsernameEmail ==
    \A u1, u2 \in users :
        u1.id # u2.id => (u1.username # u2.username /\ u1.email # u2.email)

\* C6: whenever a step stores a task with a new assigned_to (an inserted
\* task, or an updated one whose assigned_to changed), a user with that id is
\* in users when the step is taken.
C6_AssigneeExistsAtWrite ==
    [][\A t2 \in tasks' :
          (\A t \in tasks : t.id = t2.id => t.assigned_to # t2.assigned_to)
          => \E u \in users : u.id = t2.assigned_to]_vars

\* C7: a task that is inserted gets as assigned_by the id of the admin whose
\* create_task request inserts it, and no step changes the assigned_by of a
\* stored task.
C7_AssignedByFixed ==
    [][/\ \A t \in tasks, t2 \in tasks' :
            t2.id = t.id => t2.assigned_by = t.assigned_by
       /\ \A t2 \in tasks' :
            (~ \E t \in tasks : t.id = t2.id)
            => \E s \in Slots :
                 /\ reqs[s].op = "create_task"
                 /\ Stepped(s)
                 /\ reqs[s].caller.role = "admin"
                 /\ t2.assigned_by = reqs[s].caller.id]_vars

\* An admin's update that changed other fields of a task went through, and
\* the task still has the assigned_by of its creation.
C7_Witness ==
    /\ resp.op = "update_task"
    /\ resp.code = 200
    /\ resp.caller.role = "admin"
    /\ \E t \in tasks :
         /\ t.id = resp.data
         /\ t.title = "x"
         /\ t.updated_at > t.created_at
         /\ t.assigned_by = Admin.id

\* C8: while a token handed out by login is unexpired and its user is stored
\* with is_active false, get_current_user still resolves it to that user and
\* get_admin_user still decides on the stored role alone; /auth/me called
\* with such a token answers 200.
C8_DeactivatedStillResolves ==
    /\ \A g \in tokens, u \in users :
         (u.id = g.user.id /\ ~u.is_active /\ g.access_token.exp > now)
         => /\ get_current_user(g.access_token) = [code |-> 200, user |-> u]
            /\ get_admin_user(g.access_token).code
                 = IF u.role = "admin" THEN 200 ELSE 403
    /\ (/\ resp.op = "get_me"
        /\ \E g \in tokens, u \in users :
             /\ g.access_token = resp.data
             /\ u.id = g.user.id
             /\ ~u.is_active
             /\ g.access_token.exp > now)
       => resp.code = 200

\* /auth/me answered 200 to a user who is stored as inactive.
C8_Witness ==
    /\ resp.op = "get_me"
    /\ resp.code = 200
    /\ ~resp.caller.is_active
    /\ resp.caller \in users

\* The user that login matched may be given a token.
MayLogin(login_data, user) ==
    /\ user \in users
    /\ user.username = login_data.username
    /\ verify_password(login_data.password, user.hashed_password)
    /\ user.is_active

\* C9: a login whose username is unknown, whose password does not verify or
\* whose matched user is inactive ends with 401 and adds no token; every
\* token that is added belongs to a stored, active user.
C9_LoginRejects ==
    [][/\ resp'.op = "login"
            => /\ resp'.code \in {200, 401}
               /\ ~MayLogin(resp'.data, resp'.local)
                    => (resp'.code = 401 /\ tokens' = tokens)
       /\ \A g \in tokens' \ tokens :
            \E u \in users : u.id = g.user.id /\ u.is_active]_vars

\* An inactive user logged in with the correct password and got 401.
C9_Witness ==
    /\ resp.op = "login"
    /\ resp.code = 401
    /\ resp.local \in users
    /\ verify_password(resp.data.password, resp.local.hashed_password)
    /\ ~resp.local.is_active

\* C10 as stated: /auth/me called with a token returns the user who logged
\* in, with the role that login returned.
C10_MeReturnsLoginRole ==
    (resp.op = "get_me" /\ resp.code = 200)
    => \A g \in tokens :
         g.access_token = resp.data
         => (resp.body.id = g.user.id /\ resp.body.role = g.user.role)

\* C10: a successful login returns a token whose subject is the id of the
\* user it matched and returned; while that token is unexpired and a user
\* with that id is stored, get_current_user resolves it to the user with that
\* id, and /auth/me returns that id with the user's fields as stored now.
C10_TokenResolvesToLoginUser ==
    /\ \A g \in tokens :
         (g.access_token.exp > now /\ \E u \in users : u.id = g.user.id)
         => /\ get_current_user(g.access_token).code = 200
            /\ get_current_user(g.access_token).user.id = g.user.id
    /\ (resp.op = "login" /\ resp.code = 200)
       => /\ MayLogin(resp.data, resp.local)
          /\ resp.body.user = UserResponse(resp.local)
          /\ resp.body.access_token.sub = Some(resp.local.id)
          /\ resp.body \in tokens
    /\ (resp.op = "get_me" /\ resp.code = 200)
       => /\ \A g \in tokens :
               g.access_token = resp.data => resp.body.id = g.user.id
          /\ \E u \in users : resp.body = UserResponse(u)

\* /auth/me answered with a role that differs from the one login returned.
C10_Witness ==
    /\ resp.op = "get_me"
    /\ resp.code = 200
    /\ \E g \in tokens :
         /\ g.access_token = resp.data
         /\ g.user.id = resp.body.id
         /\ g.user.role # resp.body.role

\* The total of the task counts in a stats response.
StatsTotal(body) ==
    IF "total_tasks" \in DOMAIN body THEN body.total_tasks ELSE body.my_tasks

\* C11: every dashboard stats response has pending + in_progress +
\* completed <= total for the caller's scope, also when other requests
\* create, update or delete tasks between the counts of the same call.
C11_StatsConsistent ==
    (resp.op = "get_dashboard_stats" /\ resp.code = 200)
    => resp.body.pending_tasks + resp.body.in_progress_tasks
         + resp.body.completed_tasks <= StatsTotal(resp.body)

\* The account that startup seeds.
SeededAdmin(u) ==
    /\ u.username = "admin"
    /\ u.role = "admin"
    /\ verify_password("admin123", u.hashed_password)

C13_StatusInEnum ==
    \A t \in tasks : t.status \in {"pending", "in_progress", "completed"}

\* C15: a task update refreshes updated_at only if at least one other field
\* of the task changed: a step that leaves every other field of a task as it
\* was leaves its updated_at as it was.
C15_UpdatedAtOnlyOnChange ==
    [][\A t \in tasks, t2 \in tasks' :
          (t2.id = t.id /\ [t2 EXCEPT !.updated_at = t.updated_at] = t)
          => t2.updated_at = t.updated_at]_vars

\* The request in slot s is an admin's update_task whose payload names an
\* assignee that is not stored.
UpdateToMissingUser(s) ==
    /\ reqs[s].op = "update_task"
    /\ reqs[s].caller.role = "admin"
    /\ reqs[s].data.task_data.assigned_to # None
    /\ ~ \E u \in users : u.id = reqs[s].data.task_data.assigned_to[1]

\* C17: an admin's create-task or update-task call whose assigned_to names
\* no stored user writes nothing in any of its steps and ends with 404:
\* no task is inserted, and no field of the task, updated_at included, is
\* changed.
C17_MissingAssigneeWritesNothing ==
    [][\A s \in Slots :
          /\ (UpdateToMissingUser(s) /\ Stepped(s))
             => /\ tasks' = tasks
                /\ reqs'[s].pc \notin {"update", "respond"}
                /\ resp'.op = "update_task" => resp'.code = 404
          /\ (/\ reqs[s].op = "create_task"
              /\ reqs[s].pc = "find"
              /\ Stepped(s)
              /\ ~ \E u \in users : u.id = reqs[s].data.assigned_to)
             => /\ tasks' = tasks
                /\ nextTaskId' = nextTaskId
                /\ resp'.op = "create_task"
                /\ resp'.code = 404]_vars

\* An admin's update naming a missing assignee found the task, got 404, and
\* the task is stored as it was read.
C17_Witness ==
    /\ resp.op = "update_task"
    /\ resp.code = 404
    /\ resp.caller.role = "admin"
    /\ resp.local # NoTask
    /\ resp.local \in tasks

\* C14: a token issued without an explicit ttl expires exactly 30 minutes
\* after it is issued, as a token issued by login does.
C14_DefaultTtlThirty ==
    (resp.op = "create_access_token" /\ resp.data.expires_delta = None)
    => resp.body.exp = now + ACCESS_TOKEN_EXPIRE_MINUTES

\* The user object a task listing carries for this id: the stored user's
\* public view, or null when no user has the id.
ResolvedUser(view, user_id, stored) ==
    IF \E u \in stored : u.id = user_id
    THEN view # None /\ view[1].id = user_id
    ELSE view = None

\* C16: a delete_user request leaves the tasks collection as it was, and a
\* listing made for an admin returns every stored task, with
\* assigned_to_user / assigned_by_user null exactly where no user has that
\* id any more.
C16_NoCascade ==
    [][/\ \A s \in Slots :
            ((reqs[s].op = "delete_user" \/ reqs'[s].op = "delete_user")
             /\ reqs'[s].pc # reqs[s].pc) => tasks' = tasks
       /\ resp'.op = "delete_user" => tasks' = tasks
       /\ (resp'.op = "get_tasks" /\ resp'.code = 200
           /\ resp'.caller.role = "admin")
          => /\ {e.task : e \in resp'.body} = tasks'
             /\ \A e \in resp'.body :
                  /\ ResolvedUser(e.assigned_to_user, e.task.assigned_to,
                                  users')
                  /\ ResolvedUser(e.assigned_by_user, e.task.assigned_by,
                                  users')]_vars

\* An admin was listed a task whose assignee and creator have been deleted.
C16_Witness ==
    /\ resp.op = "get_tasks"
    /\ resp.code = 200
    /\ resp.caller.role = "admin"
    /\ \E e \in resp.body :
         /\ e.task \in tasks
         /\ e.assigned_to_user = None
         /\ e.assigned_by_user = None

\* C18: a user with role "admin" comes to exist only in a step of startup
\* seeding or of a request whose caller has role "admin"; no request made
\* without an admin's token, register included, produces one.
C18_AdminOnlyFromAdmin ==
    [][\A u2 \in users' :
          (u2.role = "admin"
           /\ ~ \E u \in users : u.id = u2.id /\ u.role = "admin")
          => \E s \in Slots :
               /\ reqs'[s].pc # reqs[s].pc
               /\ reqs[s].op = "startup" \/ reqs[s].caller.role = "admin"]_vars

====
